---- MODULE Spec2Model ----
(***************************************************************************)
(* Model of the init_trait crate: the Init trait (init / init_with) and    *)
(* its implementations for fixed-size arrays of 1 to 6 dimensions and for  *)
(* Vec.  A construction is a stack of 1D loops; the user generator is a    *)
(* closure whose captured state is the number of times it has been called. *)
(***************************************************************************)
EXTENDS Integers, Sequences, FiniteSets, TLC

\* Largest amount of work (product of the dimension lengths, an empty
\* dimension counting as one) of a container type that is explored.
MaxElems == 5

\* The nested-array implementations stop at six dimensions.
MaxDims == 6

VARIABLES
    kind,      \* "array" or "vec": the Self type of the call
    dims,      \* array type parameters <<N1, ..., NK>>, N1 innermost; <<>> for Vec
    value,     \* the auxiliary parameter V: () for arrays, the length for Vec
    gen,       \* which generator closure is passed as elem
    failAt,    \* the closure panics on its failAt-th invocation (0: never)
    entry,     \* the trait method the caller used
    pc,        \* position of the calling thread
    stack,     \* active 1D constructions, outermost first
    calls,     \* every index passed to the user generator so far, in order
    active,    \* number of user generator invocations that have not returned
    result,    \* the value handed to the caller
    dropped,   \* ids of the elements whose destructor has run, in order
    first      \* outcome of the previous call in a two-call comparison

vars == <<kind, dims, value, gen, failAt, entry, pc, stack, calls, active,
          result, dropped, first>>

config == <<kind, dims, value, gen, failAt>>

---------------------------------------------------------------------------
\* Values

Unit == <<>>

None == [tag |-> "none"]

Garbage == [tag |-> "garbage"]

MaybeUninit_uninit == [init |-> FALSE, v |-> Garbage]

MaybeUninit_new(e) == [init |-> TRUE, v |-> e]

Array(items) == [tag |-> "array", items |-> items]

Elem(val, id) == [tag |-> "elem", val |-> val, id |-> id]

GenKinds == {"index", "house"}

\* The closures of the tests and of the crate documentation.
Gen(g, idx) ==
    IF g = "index" THEN idx ELSE idx[1] + 1

RECURSIVE Work(_)
Work(s) ==
    IF s = <<>> THEN 1
    ELSE (IF Head(s) = 0 THEN 1 ELSE Head(s)) * Work(Tail(s))

RECURSIVE Product(_)
Product(s) == IF s = <<>> THEN 1 ELSE Head(s) * Product(Tail(s))

Shapes ==
    {s \in UNION {[1..k -> 0..MaxElems] : k \in 1..MaxDims} : Work(s) <= MaxElems}

\* Number of generator invocations a complete construction makes.
Total == IF kind = "vec" THEN value ELSE Product(dims)

K == Len(dims)

---------------------------------------------------------------------------
\* Helpers of the implementations

\* As elem_index, the implementation's own index placed first.
elem_index_own_first(k, t, ik) == <<ik>> \o t

\* The index array each nested implementation's inner closure builds from
\* the inner index t and its own index ik.
elem_index(k, t, ik) ==
    CASE k = 2 -> <<t[1], ik>>
      [] k = 3 -> <<t[1], t[2], ik>>
      [] k = 4 -> <<t[1], t[2], t[3], ik>>
      [] k = 5 -> <<t[1], t[2], t[3], t[4], ik>>
      [] k = 6 -> <<t[1], t[2], t[3], t[4], t[5], ik>>

\* As LoopIndex, the levels counted from the outermost.
LoopIndex_outer_first(k) == stack[k].i

\* Loop index of the construction of level k (level K is the outermost).
LoopIndex(k) == stack[K - k + 1].i

\* The index the user generator receives when the level-1 loop calls its
\* closure: the chain of closures of levels 2..K applied to i1.
RECURSIVE UserIndex(_)
UserIndex(k) ==
    IF k = 1 THEN <<LoopIndex(1)>>
    ELSE elem_index(k, UserIndex(k - 1), LoopIndex(k))

Top == stack[Len(stack)]

NewArrayFrame(k, n) ==
    [ty |-> "array", k |-> k, n |-> n, i |-> 0,
     contents |-> [j \in 1..n |-> MaybeUninit_uninit]]

NewVecFrame(length) ==
    [ty |-> "vec", k |-> 1, n |-> length, i |-> 0, contents |-> <<>>]

\* As LoopRange, N included.
LoopRange_inclusive(n) == 0 .. n

\* As LoopRange, 0 left out.
LoopRange_from_one(n) == 1 .. (n - 1)

\* As LoopRange, the last index left out.
LoopRange_short(n) == 0 .. (n - 2)

\* The range 0..N of the for loop.
LoopRange(n) == 0 .. (n - 1)

\* As StoreSlot, the slots filled from the far end.
StoreSlot_from_end(f, e) ==
    [f EXCEPT !.contents = [@ EXCEPT ![f.n - f.i] = MaybeUninit_new(e)],
              !.i = f.i + 1]

\* contents[i] = MaybeUninit::new(e)
StoreSlot(f, e) ==
    [f EXCEPT !.contents = [@ EXCEPT ![f.i + 1] = MaybeUninit_new(e)],
              !.i = f.i + 1]

\* value.push(e)
Vec_push(f, e) ==
    [f EXCEPT !.contents = Append(@, e), !.i = f.i + 1]

\* Bitwise copy of the slots, read as an array of T.
transmute_copy(contents) ==
    Array([j \in 1..Len(contents) |-> contents[j].v])

RECURSIVE Ids(_)
Ids(v) ==
    CASE v.tag = "elem" -> <<v.id>>
      [] v.tag = "array" ->
            IF v.items = <<>> THEN <<>>
            ELSE Ids(Head(v.items)) \o Ids(Array(Tail(v.items)))
      [] OTHER -> <<>>

\* forget(contents): no destructor runs.
forget(contents) == <<>>

\* Dropping a [MaybeUninit<T>; N] runs no destructor of T.
DropMaybeUninitArray(contents) == <<>>

\* As DropVec, the elements forgotten.
DropVec_forget(contents) == <<>>

\* Dropping a Vec<T> drops its elements in order.
DropVec(contents) == Ids(Array(contents))

\* The closure's captured call counter decides whether this invocation panics.
Panics == failAt = Len(calls)

---------------------------------------------------------------------------
\* Specification

Init ==
    /\ kind \in {"array", "vec"}
    /\ dims \in (IF kind = "array" THEN Shapes ELSE {<<>>})
    /\ value \in (IF kind = "array" THEN {Unit} ELSE 0..MaxElems)
    /\ gen \in (IF Len(dims) > 1 THEN {"index"} ELSE GenKinds)
    /\ failAt \in 0 .. (Total + 1)
    /\ entry = "none"
    /\ pc = "idle"
    /\ stack = <<>>
    /\ calls = <<>>
    /\ active = 0
    /\ result = None
    /\ dropped = <<>>
    /\ first = None

\* Body shared by every init_with: the nested implementations call the 1D
\* implementation on the outer array, the 1D array implementation allocates
\* its scratch buffer, the Vec implementation allocates the vector.
Enter(v) ==
    /\ stack' = IF kind = "array"
                THEN <<NewArrayFrame(K, dims[K])>>
                ELSE <<NewVecFrame(v)>>
    /\ pc' = "loop"
    /\ UNCHANGED <<config, calls, active, result, dropped, first>>

init_with ==
    /\ pc = "idle"
    /\ entry' = "init_with"
    /\ Enter(value)

TypeEquals_into(v) == v

\* As init, the closure called once for a value to fill the array with
\* before the call is passed on.
init_probe ==
    /\ pc = "idle"
    /\ kind = "array"
    /\ entry' = "init"
    /\ stack' = <<NewArrayFrame(K, dims[K])>>
    /\ calls' = <<[j \in 1..K |-> 0]>>
    /\ pc' = "loop"
    /\ UNCHANGED <<config, active, result, dropped, first>>

init ==
    /\ pc = "idle"
    /\ kind = "array"
    /\ entry' = "init"
    /\ Enter(TypeEquals_into(Unit))

\* The level-1 loop (or the Vec loop) calls the generator.
CallElem ==
    /\ pc = "loop"
    /\ Top.k = 1
    /\ Top.i \in LoopRange(Top.n)
    /\ calls' = Append(calls, IF kind = "array" THEN UserIndex(K) ELSE <<Top.i>>)
    /\ active' = active + 1
    /\ pc' = "in_elem"
    /\ UNCHANGED <<config, entry, stack, result, dropped, first>>

\* A loop of level k > 1 calls its closure, which starts the construction
\* of the inner array.
CallInner ==
    /\ pc = "loop"
    /\ Top.k > 1
    /\ Top.i \in LoopRange(Top.n)
    /\ stack' = Append(stack, NewArrayFrame(Top.k - 1, dims[Top.k - 1]))
    /\ UNCHANGED <<config, entry, pc, calls, active, result, dropped, first>>

ElemReturn ==
    /\ pc = "in_elem"
    /\ ~Panics
    /\ LET e == Elem(Gen(gen, calls[Len(calls)]), Len(calls))
           f == IF Top.ty = "array" THEN StoreSlot(Top, e) ELSE Vec_push(Top, e)
       IN stack' = [stack EXCEPT ![Len(stack)] = f]
    /\ active' = active - 1
    /\ pc' = "loop"
    /\ UNCHANGED <<config, entry, calls, result, dropped, first>>

ElemPanic ==
    /\ pc = "in_elem"
    /\ Panics
    /\ active' = active - 1
    /\ pc' = "unwinding"
    /\ UNCHANGED <<config, entry, stack, calls, result, dropped, first>>

\* Hand res to whoever called this construction.
Return(res) ==
    IF Len(stack) = 1
    THEN /\ stack' = <<>>
         /\ result' = res
         /\ pc' = "done"
    ELSE /\ stack' = [SubSeq(stack, 1, Len(stack) - 1)
                        EXCEPT ![Len(stack) - 1] = StoreSlot(@, res)]
         /\ result' = result
         /\ pc' = "loop"

ArrayFinish ==
    /\ pc = "loop"
    /\ Top.ty = "array"
    /\ Top.i \notin LoopRange(Top.n)
    /\ Return(transmute_copy(Top.contents))
    /\ dropped' = dropped \o forget(Top.contents)
    /\ UNCHANGED <<config, entry, calls, active, first>>

VecFinish ==
    /\ pc = "loop"
    /\ Top.ty = "vec"
    /\ Top.i \notin LoopRange(Top.n)
    /\ Return(Array(Top.contents))
    /\ UNCHANGED <<config, entry, calls, active, dropped, first>>

\* The panic leaves one construction: its locals are dropped.
Unwind ==
    /\ pc = "unwinding"
    /\ stack # <<>>
    /\ dropped' = dropped \o (IF Top.ty = "array"
                              THEN DropMaybeUninitArray(Top.contents)
                              ELSE DropVec(Top.contents))
    /\ stack' = SubSeq(stack, 1, Len(stack) - 1)
    /\ pc' = IF Len(stack) = 1 THEN "panicked" ELSE "unwinding"
    /\ UNCHANGED <<config, entry, calls, active, result, first>>

Next ==
    \/ init_with
    \/ init
    \/ CallElem
    \/ CallInner
    \/ ElemReturn
    \/ ElemPanic
    \/ ArrayFinish
    \/ VecFinish
    \/ Unwind

Spec == Init /\ [][Next]_vars

\* A caller that, once a call has ended, makes a second call on the same
\* type with an identical closure in its initial captured state.
Rerun ==
    /\ pc \in {"done", "panicked"}
    /\ first = None
    /\ first' = [tag |-> "run", entry |-> entry, pc |-> pc, calls |-> calls,
                 result |-> result, dropped |-> dropped]
    /\ entry' = "none"
    /\ pc' = "idle"
    /\ calls' = <<>>
    /\ result' = None
    /\ dropped' = <<>>
    /\ UNCHANGED <<config, stack, active>>

NextEquiv ==
    \/ Next
    \/ Rerun

SpecEquiv == Init /\ [][NextEquiv]_vars

---------------------------------------------------------------------------
\* Vocabulary of the properties

\* 1D fixed-size array or Vec
OneDim == kind = "vec" \/ K = 1

N == IF kind = "vec" THEN value ELSE dims[1]

\* All in-bounds index tuples <<i1, ..., ik>> for lengths ds.
RECURSIVE Tuples(_)
Tuples(ds) ==
    IF ds = <<>> THEN {<<>>}
    ELSE {<<a>> \o t : a \in 0 .. (Head(ds) - 1), t \in Tuples(Tail(ds))}

Reverse(t) == [j \in 1..Len(t) |-> t[Len(t) + 1 - j]]

\* c[a1][a2]...[am], or Garbage when an index is out of range.
RECURSIVE Lookup(_, _)
Lookup(c, a) ==
    IF a = <<>> THEN c
    ELSE IF c.tag = "array" /\ Head(a) + 1 \in 1..Len(c.items)
         THEN Lookup(c.items[Head(a) + 1], Tail(a))
         ELSE Garbage

HasVal(v, x) == v.tag = "elem" /\ v.val = x

RECURSIVE NoGarbage(_)
NoGarbage(v) ==
    CASE v.tag = "elem" -> TRUE
      [] v.tag = "array" -> \A j \in 1..Len(v.items) : NoGarbage(v.items[j])
      [] OTHER -> FALSE

\* s lists every member of 1..n exactly once.
ExactlyOnce(s, n) ==
    /\ Len(s) = n
    /\ \A x \in 1..n : \E j \in 1..n : s[j] = x

\* The m-th tuple (from 0) in the order where the first component varies
\* fastest and the last slowest.
RECURSIVE Stride(_)
Stride(j) == IF j = 1 THEN 1 ELSE dims[j - 1] * Stride(j - 1)

Unrank(m) ==
    [j \in 1..K |-> IF dims[j] = 0 THEN -1 ELSE (m \div Stride(j)) % dims[j]]

---------------------------------------------------------------------------
\* Properties

\* C1: a 1D array of length N, and Vec::init_with(N, g), come back with
\* exactly N elements, the one at index i being g(i).
C1_ElementsAreGenerated ==
    (pc = "done" /\ OneDim) =>
        /\ result.tag = "array"
        /\ Len(result.items) = N
        /\ \A i \in 0 .. (N - 1) : HasVal(result.items[i + 1], Gen(gen, <<i>>))

C1_Witness ==
    /\ pc = "done" /\ OneDim /\ N >= 3 /\ gen = "house"
    /\ HasVal(result.items[3], 3)

\* C2: a successful 1D or Vec construction of length N has called the
\* generator exactly once for each index of 0..N-1 and for nothing else;
\* with N = 0 it was never called, even when it would have panicked, and the
\* result is empty; with N = 1 it was called once, with index 0.
C2_OncePerIndex ==
    (pc = "done" /\ OneDim) =>
        /\ Len(calls) = N
        /\ \A i \in 0 .. (N - 1) :
               Cardinality({j \in 1..Len(calls) : calls[j] = <<i>>}) = 1
        /\ \A j \in 1..Len(calls) : calls[j] \in Tuples(<<N>>)
        /\ (N = 0 => calls = <<>> /\ result = Array(<<>>))
        /\ (N = 1 => calls = << <<0>> >>)

C2_Witness ==
    /\ pc = "done" /\ OneDim /\ N = 0 /\ failAt = 1
    /\ calls = <<>>

C4_OutermostFirst ==
    (pc = "done" /\ kind = "array" /\ gen = "index") =>
        \A a \in Tuples(Reverse(dims)) : HasVal(Lookup(result, a), a)

\* C5: when the generator panics in a fixed-size construction the caller
\* gets no array and every element the generator had returned is dropped
\* exactly once.
C5_PanicReleasesElements ==
    (pc = "panicked" /\ kind = "array") =>
        /\ result = None
        /\ ExactlyOnce(dropped, Len(calls) - 1)

\* C6: when the generator panics at index k of Vec::init_with the caller
\* gets no vector; at the moment of the panic the vector holds g(0)..g(k-1)
\* in order, and each of them is then dropped exactly once.
C6_VecPanic ==
    /\ (pc = "unwinding" /\ stack # <<>> /\ kind = "vec") =>
           /\ Len(Top.contents) = Len(calls) - 1
           /\ \A j \in 1..Len(Top.contents) :
                  /\ HasVal(Top.contents[j], Gen(gen, <<j - 1>>))
                  /\ Top.contents[j].id = j
           /\ result = None
    /\ (pc = "panicked" /\ kind = "vec") =>
           /\ result = None
           /\ Len(calls) - 1 < value
           /\ ExactlyOnce(dropped, Len(calls) - 1)

C6_Witness ==
    /\ pc = "panicked" /\ kind = "vec"
    /\ Len(calls) = 3 /\ dropped = <<1, 2>>

\* C7: init(g) and init_with((), g), given the same closure in the same
\* initial state, make the same generator invocations and end the same way
\* with the same container.
C7_InitIsInitWith ==
    (first.tag = "run" /\ pc \in {"done", "panicked"} /\ first.entry # entry) =>
        /\ first.calls = calls
        /\ first.pc = pc
        /\ first.result = result
        /\ first.dropped = dropped

C7_Witness ==
    /\ first.tag = "run" /\ first.entry = "init_with" /\ entry = "init"
    /\ pc = "done" /\ Len(calls) >= 4 /\ K >= 2

\* C8: the generator invocations are sequential and ordered: the j-th
\* invocation gets the j-th index in the order with the first component
\* fastest and the last (outermost) slowest, which in one dimension is
\* 0, 1, ..., N-1; the element of every earlier index is stored before an
\* invocation begins; and at most one invocation is active.
C8_SequentialOrdered ==
    /\ active \in {0, 1}
    /\ (active = 1) = (pc = "in_elem")
    /\ \A j \in 1..Len(calls) :
           calls[j] = (IF kind = "vec" THEN <<j - 1>> ELSE Unrank(j - 1))
    /\ pc = "in_elem" =>
           /\ calls[Len(calls)][1] = Top.i
           /\ \A j \in 1..Top.i :
                  IF Top.ty = "array"
                  THEN /\ Top.contents[j].init
                       /\ HasVal(Top.contents[j].v, Gen(gen, calls[Len(calls) - Top.i + j - 1]))
                  ELSE /\ j <= Len(Top.contents)
                       /\ Top.contents[j].id = j

C8_Witness ==
    /\ pc = "in_elem" /\ kind = "array" /\ K >= 2
    /\ calls[Len(calls)] = <<0, 1>> \o [j \in 1 .. (K - 2) |-> 0]
    /\ Len(calls) = 3

\* C9 (state part): a buffer is read as an array only when all its slots are
\* initialized, so no uninitialized slot reaches a finished array; a
\* successful construction drops nothing and every generated element is
\* owned exactly once, by the returned array.
C9_State ==
    /\ \A d \in 1..Len(stack) :
           stack[d].ty = "array" =>
               \A j \in 1..stack[d].n :
                   /\ stack[d].contents[j].init = (j <= stack[d].i)
                   /\ stack[d].contents[j].init => NoGarbage(stack[d].contents[j].v)
    /\ (pc = "done" /\ kind = "array") =>
           /\ NoGarbage(result)
           /\ dropped = <<>>
           /\ ExactlyOnce(Ids(result), Len(calls))

\* C9 (step part): a slot of a construction in progress changes only from
\* uninitialized to initialized, and an initialized slot keeps its element.
C9_Step ==
    \A d \in 1..Len(stack) :
        (d <= Len(stack') /\ stack[d].ty = "array") =>
            \A j \in 1..stack[d].n :
                /\ stack[d].contents[j].init => stack'[d].contents[j] = stack[d].contents[j]
                /\ stack'[d].contents[j] # stack[d].contents[j] =>
                       ~stack[d].contents[j].init /\ stack'[d].contents[j].init

\* C9: during a fixed-size construction every slot goes from uninitialized
\* to initialized exactly once and never back, the buffer becomes the array
\* only when all slots are initialized, and on success each generated
\* element is owned exactly once, by the returned array, none being dropped.
C9_SlotsInitializedOnce == []C9_State /\ [][C9_Step]_vars

C9_Witness ==
    /\ pc = "done" /\ kind = "array" /\ K = 1 /\ N = 4
    /\ Ids(result) = <<1, 2, 3, 4>>

\* C10: a successful K-dimensional construction (K in 2..6) has called the
\* generator N1 * ... * NK times, once for each in-bounds index tuple and
\* with nothing else; with an empty dimension it was never called.
C10_OncePerTuple ==
    (pc = "done" /\ kind = "array" /\ K >= 2) =>
        /\ Len(calls) = Product(dims)
        /\ \A t \in Tuples(dims) :
               Cardinality({j \in 1..Len(calls) : calls[j] = t}) = 1
        /\ \A j \in 1..Len(calls) : calls[j] \in Tuples(dims)
        /\ ((\E j \in 1..K : dims[j] = 0) => calls = <<>>)

C10_Witness ==
    /\ pc = "done" /\ kind = "array" /\ K = 6
    /\ Len(calls) = 4 /\ dims[2] = 2 /\ dims[6] = 2

====
